---- MODULE Spec2Model ----
(***************************************************************************)
(* Authentication and role-based access control of the tourism API        *)
(* (src/server.js): the three login handlers, tourist registration, the   *)
(* verifyToken middleware and the routes it guards.                       *)
(*                                                                         *)
(* The MySQL tables are sets of rows.  A handler that awaits the store    *)
(* once after its last read is one action; the registration handler,      *)
(* which reads (SELECT) and later writes (INSERT), is two steps per       *)
(* in-flight request, so two requests interleave.  Every pool.execute     *)
(* may throw (input `fault`), which lands in the handler's catch block.   *)
(* Time is the JWT clock, in seconds.                                     *)
(***************************************************************************)
EXTENDS Integers, Sequences, FiniteSets, TLC

VARIABLES
    turistas,        \* rows of table turistas
    admins,          \* rows of table administradores_negocios
    supers,          \* rows of table super_administradores
    negocios,        \* rows of table negocios
    nextTuristaId,   \* AUTO_INCREMENT of turistas
    reg,             \* in-flight POST /api/auth/turista/register requests
    issued,          \* tokens handed out in login responses
    now,             \* clock, seconds
    ticks,           \* clock advances so far
    nreq,            \* requests received so far
    resenas,         \* rows of table resenas
    rev,             \* in-flight POST /api/resenas requests
    codec,           \* a jwt.sign / jwt.verify call pair on its own
    resp             \* the response the last step sent, if it sent one

vars == <<turistas, admins, supers, negocios, nextTuristaId, reg, issued,
          now, ticks, nreq, resenas, rev, codec, resp>>

store == <<turistas, admins, supers, negocios, nextTuristaId>>

reviews == <<resenas, rev>>

----------------------------------------------------------------------------
(* Bounds of the model *)

MaxReq == 2
MaxTicks == 2

(* Program constants *)

ExpiresIn == 86400
BcryptRounds == 10

JWT_SECRET == "tu_clave_secreta_muy_segura"
OtherKey == "another_key"

Emails == {"t1@x.com", "t2@x.com", "a@x.com"}
AdminEmails == {"ad1@x.com", "ad2@x.com", "nobody@x.com"}
Usuarios == {"root", "oper", "ghost"}
Passwords == {"secret1", "wrongpass"}
Salts == {"salt3"}
Nombres == {"n2"}
NULL == "NULL"
RegSlots == {"r1", "r2"}
RevSlots == {"v1", "v2"}

----------------------------------------------------------------------------
(* bcryptjs: a digest carries its cost and salt; compare re-derives the   *)
(* hash from the digest's own salt.                                       *)

bcryptHash(password, rounds, salt) ==
    [cost |-> rounds, salt |-> salt, hash |-> <<salt, password>>]

bcryptCompare(password, digest) ==
    digest.hash = <<digest.salt, password>>

----------------------------------------------------------------------------
(* jsonwebtoken.  A token is the triple <<header, payload, signature>>;   *)
(* the signature is a MAC of the payload under the signing key.  Any      *)
(* other word (<<"garbage">>, the empty string <<>>) is not a JWT.        *)

Mac(key, payload) == <<key, payload>>

(* jwt.sign with the noTimestamp option: no iat claim is added *)
jwtSignNoTimestamp(payload, key, expiresIn, t) ==
    LET claims == payload @@ [exp |-> t + expiresIn]
    IN  <<"HS256", claims, Mac(key, claims)>>

jwtSign(payload, key, expiresIn, t) ==
    LET claims == payload @@ [iat |-> t, exp |-> t + expiresIn]
    IN  <<"HS256", claims, Mac(key, claims)>>

(* jwt.verify with the expiry test one second late *)
jwtVerifyLateExpiry(token, key, t) ==
    IF Len(token) # 3
    THEN [error |-> "jwt malformed", decoded |-> {}]
    ELSE IF token[3] # Mac(key, token[2])
    THEN [error |-> "invalid signature", decoded |-> {}]
    ELSE IF t > token[2].exp
    THEN [error |-> "jwt expired", decoded |-> {}]
    ELSE [error |-> "none", decoded |-> {token[2]}]

jwtVerify(token, key, t) ==
    IF Len(token) # 3
    THEN [error |-> "jwt malformed", decoded |-> {}]
    ELSE IF token[3] # Mac(key, token[2])
    THEN [error |-> "invalid signature", decoded |-> {}]
    ELSE IF t >= token[2].exp
    THEN [error |-> "jwt expired", decoded |-> {}]
    ELSE [error |-> "none", decoded |-> {token[2]}]

----------------------------------------------------------------------------
(* Responses.  token, id and user are sets of at most one element: the    *)
(* token and the id in the body, and req.user as verifyToken bound it;    *)
(* ran says whether the route's handler ran.                              *)

Response(op, req, status, message, token, id) ==
    [op |-> op, req |-> req, status |-> status,
     message |-> message, token |-> token, id |-> id, user |-> {}, ran |-> TRUE]

GuardedResponse(op, req, status, message, id, user, ran) ==
    [op |-> op, req |-> req, status |-> status,
     message |-> message, token |-> {}, id |-> id, user |-> user, ran |-> ran]

InternalError(op, req) ==
    Response(op, req, 500, "Error interno del servidor", {}, {})

NoResponse ==
    [op |-> "none", req |-> [none |-> TRUE], status |-> 0,
     message |-> "", token |-> {}, id |-> {}, user |-> {}, ran |-> FALSE]

----------------------------------------------------------------------------
(* The state after the schema is loaded: one active and one inactive      *)
(* principal of each kind, two businesses.                                *)

InitTuristas ==
    { [id |-> 1, email |-> "t1@x.com", estado |-> "activo",
       password_hash |-> bcryptHash("secret1", BcryptRounds, "salt1"),
       ultima_conexion |-> -1],
      [id |-> 2, email |-> "t2@x.com", estado |-> "inactivo",
       password_hash |-> bcryptHash("secret1", BcryptRounds, "salt2"),
       ultima_conexion |-> -1] }

InitAdmins ==
    { [id |-> 1, email |-> "ad1@x.com", estado |-> "activo", negocio_id |-> 2,
       password_hash |-> bcryptHash("secret1", BcryptRounds, "salt1"),
       ultima_conexion |-> -1],
      [id |-> 2, email |-> "ad2@x.com", estado |-> "inactivo", negocio_id |-> 1,
       password_hash |-> bcryptHash("secret1", BcryptRounds, "salt2"),
       ultima_conexion |-> -1] }

InitSupers ==
    { [id |-> 1, usuario |-> "root", estado |-> "activo", nivel_acceso |-> "total",
       password_hash |-> bcryptHash("secret1", BcryptRounds, "salt1"),
       ultima_conexion |-> -1],
      [id |-> 2, usuario |-> "oper", estado |-> "inactivo", nivel_acceso |-> "limitado",
       password_hash |-> bcryptHash("secret1", BcryptRounds, "salt2"),
       ultima_conexion |-> -1] }

InitNegocios ==
    { [id |-> 1, nombre |-> "n1"], [id |-> 2, nombre |-> "n1"] }

IdleReg == [pc |-> "idle", email |-> "", password |-> ""]

(* No /api/resenas request in flight in a slot; no codec call made *)
IdleRev == [pc |-> "idle", user |-> {}, negocio_id |-> 0, calificacion |-> 0]

IdleCodec ==
    [pc |-> "idle", claims |-> {}, at |-> 0, token |-> {}, key |-> "",
     verifiedAt |-> 0, error |-> "", decoded |-> {}]

(* users[0] of an empty result set *)
NoRow == [id |-> 0]

Init ==
    /\ turistas = InitTuristas
    /\ admins = InitAdmins
    /\ supers = InitSupers
    /\ negocios = InitNegocios
    /\ nextTuristaId = 3
    /\ reg = [s \in RegSlots |-> IdleReg]
    /\ issued = {}
    /\ now = 0
    /\ ticks = 0
    /\ nreq = 0
    /\ resenas = {}
    /\ rev = [s \in RevSlots |-> IdleRev]
    /\ codec = IdleCodec
    /\ resp = NoResponse

----------------------------------------------------------------------------
(* POST /api/auth/turista/login *)

TouchTurista(id, t) ==
    { IF u.id = id THEN [u EXCEPT !.ultima_conexion = t] ELSE u : u \in turistas }

SelectTuristaByEmail(email) == { u \in turistas : u.email = email }

(* users[0]: the result set has no ORDER BY, so any row may come first *)
FirstRow(users) == IF users = {} THEN {NoRow} ELSE users

(* jwtSign's payload with the role tag of another login handler *)
TuristaLoginResultWrongTipo(req, users, user) ==
    IF req.fault = "select" THEN InternalError("turista_login", req)
    ELSE IF users = {}
    THEN Response("turista_login", req, 401, "Credenciales inválidas", {}, {})
    ELSE IF user.estado # "activo"
    THEN Response("turista_login", req, 401, "Cuenta inactiva", {}, {})
    ELSE IF ~bcryptCompare(req.password, user.password_hash)
    THEN Response("turista_login", req, 401, "Credenciales inválidas", {}, {})
    ELSE IF req.fault = "update" THEN InternalError("turista_login", req)
    ELSE Response("turista_login", req, 200, "Login exitoso",
                  { jwtSign([id |-> user.id, email |-> user.email, tipo |-> "super_admin"],
                            JWT_SECRET, ExpiresIn, now) },
                  {user.id})

(* The login with a best-effort ultima_conexion update: its failure is    *)
(* ignored and the signed token is sent.                                  *)
TuristaLoginResultBestEffort(req, users, user) ==
    IF req.fault = "select" THEN InternalError("turista_login", req)
    ELSE IF users = {}
    THEN Response("turista_login", req, 401, "Credenciales inválidas", {}, {})
    ELSE IF user.estado # "activo"
    THEN Response("turista_login", req, 401, "Cuenta inactiva", {}, {})
    ELSE IF ~bcryptCompare(req.password, user.password_hash)
    THEN Response("turista_login", req, 401, "Credenciales inválidas", {}, {})
    ELSE Response("turista_login", req, 200, "Login exitoso",
                  { jwtSign([id |-> user.id, email |-> user.email, tipo |-> "turista"],
                            JWT_SECRET, ExpiresIn, now) },
                  {user.id})

TuristaLoginResult(req, users, user) ==
    IF req.fault = "select" THEN InternalError("turista_login", req)
    ELSE IF users = {}
    THEN Response("turista_login", req, 401, "Credenciales inválidas", {}, {})
    ELSE IF user.estado # "activo"
    THEN Response("turista_login", req, 401, "Cuenta inactiva", {}, {})
    ELSE IF ~bcryptCompare(req.password, user.password_hash)
    THEN Response("turista_login", req, 401, "Credenciales inválidas", {}, {})
    ELSE IF req.fault = "update" THEN InternalError("turista_login", req)
    ELSE Response("turista_login", req, 200, "Login exitoso",
                  { jwtSign([id |-> user.id, email |-> user.email, tipo |-> "turista"],
                            JWT_SECRET, ExpiresIn, now) },
                  {user.id})

TuristaLoginOutcomes(ident, password, fault) ==
    LET req == [ident |-> ident, password |-> password, fault |-> fault]
        users == SelectTuristaByEmail(ident)
    IN  { TuristaLoginResult(req, users, user) : user \in FirstRow(users) }

TuristaLogin ==
    \E email \in Emails, password \in Passwords, fault \in {"none", "select", "update"} :
      /\ nreq < MaxReq
      /\ nreq' = nreq + 1
      /\ resp' \in TuristaLoginOutcomes(email, password, fault)
      /\ issued' = issued \cup resp'.token
      /\ turistas' = IF resp'.status = 200
                   THEN TouchTurista(CHOOSE id \in resp'.id : TRUE, now)
                   ELSE turistas
      /\ UNCHANGED <<admins, supers, negocios, nextTuristaId, reg, now, ticks>>
      /\ UNCHANGED <<reviews, codec>>

----------------------------------------------------------------------------
(* POST /api/auth/admin/login *)

TouchAdmin(id, t) ==
    { IF u.id = id THEN [u EXCEPT !.ultima_conexion = t] ELSE u : u \in admins }

(* administradores_negocios an INNER JOIN negocios n ON an.negocio_id = n.id *)
SelectAdminByEmail(email) ==
    { u \in admins : u.email = email /\ \E n \in negocios : n.id = u.negocio_id }

(* AdminLoginResult without the estado check *)
AdminLoginResultNoEstado(req, users, user) ==
    IF req.fault = "select" THEN InternalError("admin_login", req)
    ELSE IF users = {}
    THEN Response("admin_login", req, 401, "Credenciales inválidas", {}, {})
    ELSE IF ~bcryptCompare(req.password, user.password_hash)
    THEN Response("admin_login", req, 401, "Credenciales inválidas", {}, {})
    ELSE IF req.fault = "update" THEN InternalError("admin_login", req)
    ELSE Response("admin_login", req, 200, "Login exitoso",
                  { jwtSign([id |-> user.id, email |-> user.email,
                             negocio_id |-> user.negocio_id, tipo |-> "admin_negocio"],
                            JWT_SECRET, ExpiresIn, now) },
                  {user.id})

AdminLoginResult(req, users, user) ==
    IF req.fault = "select" THEN InternalError("admin_login", req)
    ELSE IF users = {}
    THEN Response("admin_login", req, 401, "Credenciales inválidas", {}, {})
    ELSE IF user.estado # "activo"
    THEN Response("admin_login", req, 401, "Cuenta inactiva", {}, {})
    ELSE IF ~bcryptCompare(req.password, user.password_hash)
    THEN Response("admin_login", req, 401, "Credenciales inválidas", {}, {})
    ELSE IF req.fault = "update" THEN InternalError("admin_login", req)
    ELSE Response("admin_login", req, 200, "Login exitoso",
                  { jwtSign([id |-> user.id, email |-> user.email,
                             negocio_id |-> user.negocio_id, tipo |-> "admin_negocio"],
                            JWT_SECRET, ExpiresIn, now) },
                  {user.id})

AdminLoginOutcomes(ident, password, fault) ==
    LET req == [ident |-> ident, password |-> password, fault |-> fault]
        users == SelectAdminByEmail(ident)
    IN  { AdminLoginResult(req, users, user) : user \in FirstRow(users) }

AdminLogin ==
    \E email \in AdminEmails, password \in Passwords, fault \in {"none", "select", "update"} :
      /\ nreq < MaxReq
      /\ nreq' = nreq + 1
      /\ resp' \in AdminLoginOutcomes(email, password, fault)
      /\ issued' = issued \cup resp'.token
      /\ admins' = IF resp'.status = 200
                   THEN TouchAdmin(CHOOSE id \in resp'.id : TRUE, now)
                   ELSE admins
      /\ UNCHANGED <<turistas, supers, negocios, nextTuristaId, reg, now, ticks>>
      /\ UNCHANGED <<reviews, codec>>

----------------------------------------------------------------------------
(* POST /api/auth/super-admin/login *)

TouchSuper(id, t) ==
    { IF u.id = id THEN [u EXCEPT !.ultima_conexion = t] ELSE u : u \in supers }

(* ... WHERE usuario = ? AND estado = "activo" *)
SelectActiveSuperByUsuario(usuario) ==
    { u \in supers : u.usuario = usuario /\ u.estado = "activo" }

(* SuperAdminLoginResult with a message of its own for a wrong password *)
SuperAdminLoginResultLeaky(req, users, user) ==
    IF req.fault = "select" THEN InternalError("super_admin_login", req)
    ELSE IF users = {}
    THEN Response("super_admin_login", req, 401, "Credenciales inválidas", {}, {})
    ELSE IF ~bcryptCompare(req.password, user.password_hash)
    THEN Response("super_admin_login", req, 401, "Contraseña incorrecta", {}, {})
    ELSE IF req.fault = "update" THEN InternalError("super_admin_login", req)
    ELSE Response("super_admin_login", req, 200, "Login exitoso",
                  { jwtSign([id |-> user.id, usuario |-> user.usuario,
                             tipo |-> "super_admin", nivel_acceso |-> user.nivel_acceso],
                            JWT_SECRET, ExpiresIn, now) },
                  {user.id})

SuperAdminLoginResult(req, users, user) ==
    IF req.fault = "select" THEN InternalError("super_admin_login", req)
    ELSE IF users = {}
    THEN Response("super_admin_login", req, 401, "Credenciales inválidas", {}, {})
    ELSE IF ~bcryptCompare(req.password, user.password_hash)
    THEN Response("super_admin_login", req, 401, "Credenciales inválidas", {}, {})
    ELSE IF req.fault = "update" THEN InternalError("super_admin_login", req)
    ELSE Response("super_admin_login", req, 200, "Login exitoso",
                  { jwtSign([id |-> user.id, usuario |-> user.usuario,
                             tipo |-> "super_admin", nivel_acceso |-> user.nivel_acceso],
                            JWT_SECRET, ExpiresIn, now) },
                  {user.id})

SuperAdminLoginOutcomes(ident, password, fault) ==
    LET req == [ident |-> ident, password |-> password, fault |-> fault]
        users == SelectActiveSuperByUsuario(ident)
    IN  { SuperAdminLoginResult(req, users, user) : user \in FirstRow(users) }

SuperAdminLogin ==
    \E usuario \in Usuarios, password \in Passwords, fault \in {"none", "select", "update"} :
      /\ nreq < MaxReq
      /\ nreq' = nreq + 1
      /\ resp' \in SuperAdminLoginOutcomes(usuario, password, fault)
      /\ issued' = issued \cup resp'.token
      /\ supers' = IF resp'.status = 200
                   THEN TouchSuper(CHOOSE id \in resp'.id : TRUE, now)
                   ELSE supers
      /\ UNCHANGED <<turistas, admins, negocios, nextTuristaId, reg, now, ticks>>
      /\ UNCHANGED <<reviews, codec>>

----------------------------------------------------------------------------
(* POST /api/auth/turista/register.  The handler awaits the SELECT, then  *)
(* bcrypt.hash, then the INSERT; another request may run in between.      *)

(* Credential Store contract: email is unique in turistas, so an INSERT   *)
(* of an email already present is rejected and pool.execute throws.       *)
UniqueViolation(email) == \E u \in turistas : u.email = email

(* Column default of turistas.estado *)
DefaultEstado == "activo"

(* The pre-check without its early return *)
RegisterSelectResultNoCheck(req, existingUsers) ==
    IF req.fault = "select" THEN {InternalError("turista_register", req)}
    ELSE {}

RegisterSelectResult(req, existingUsers) ==
    IF req.fault = "select" THEN {InternalError("turista_register", req)}
    ELSE IF existingUsers # {}
    THEN {Response("turista_register", req, 400, "El email ya está registrado", {}, {})}
    ELSE {}

(* Steps 1: the request arrives and its existence pre-check runs. *)
RegisterSelect(s) ==
    \E email \in Emails, password \in Passwords, fault \in {"none", "select"} :
      LET req == [slot |-> s, email |-> email, password |-> password, fault |-> fault]
          out == RegisterSelectResult(req, SelectTuristaByEmail(email))
      IN  /\ reg[s].pc = "idle"
          /\ nreq < MaxReq
          /\ nreq' = nreq + 1
          /\ resp' = IF out = {} THEN NoResponse ELSE CHOOSE r \in out : TRUE
          /\ reg' = IF out = {}
                    THEN [reg EXCEPT ![s] = [pc |-> "insert", email |-> email,
                                             password |-> password]]
                    ELSE reg
          /\ UNCHANGED <<store, issued, now, ticks>>
          /\ UNCHANGED <<reviews, codec>>

RegisterInsertResult(req, id) ==
    IF req.fault = "insert" \/ UniqueViolation(req.email)
    THEN InternalError("turista_register", req)
    ELSE Response("turista_register", req, 201, "Turista registrado exitosamente", {}, {id})

(* Step 2: the password is hashed and the row inserted. *)
RegisterInsert(s) ==
    \E salt \in Salts, fault \in {"none", "insert"} :
      LET req == [slot |-> s, email |-> reg[s].email, password |-> reg[s].password,
                  fault |-> fault]
          hashedPassword == bcryptHash(reg[s].password, BcryptRounds, salt)
      IN  /\ reg[s].pc = "insert"
          /\ resp' = RegisterInsertResult(req, nextTuristaId)
          /\ IF resp'.status = 201
             THEN /\ turistas' = turistas \cup
                        { [id |-> nextTuristaId, email |-> reg[s].email,
                           estado |-> DefaultEstado, password_hash |-> hashedPassword,
                           ultima_conexion |-> -1] }
                  /\ nextTuristaId' = nextTuristaId + 1
             ELSE UNCHANGED <<turistas, nextTuristaId>>
          /\ reg' = [reg EXCEPT ![s] = IdleReg]
          /\ UNCHANGED <<admins, supers, negocios, issued, now, ticks, nreq>>
          /\ UNCHANGED <<reviews, codec>>

----------------------------------------------------------------------------
(* verifyToken(roles).  An Authorization header is the list of its words  *)
(* (what split(' ') returns); a word is a token triple or a plain word.   *)

Word(w) == <<w>>
EmptyWord == <<>>

NoHeader == [present |-> FALSE, parts |-> <<>>]
Header(parts) == [present |-> TRUE, parts |-> parts]

(* req.headers.authorization?.split(' ')[1]: undefined is the empty set *)
AuthorizationToken(headers) ==
    IF headers.present /\ Len(headers.parts) >= 2 THEN {headers.parts[2]} ELSE {}

Roles == {"turista", "admin_negocio", "super_admin"}

(* verifyToken without its try/catch: a jwt.verify error reaches the      *)
(* global error handler                                                   *)
verifyTokenUncaught(roles, headers, t) ==
    LET token == AuthorizationToken(headers)
    IN  IF token = {} \/ token = {EmptyWord}
        THEN [next |-> FALSE, status |-> 401, message |-> "Token no proporcionado",
              user |-> {}]
        ELSE LET v == jwtVerify(CHOOSE x \in token : TRUE, JWT_SECRET, t)
             IN  IF v.error # "none"
                 THEN [next |-> FALSE, status |-> 500,
                       message |-> "Error interno del servidor", user |-> {}]
                 ELSE IF roles # {} /\ \A d \in v.decoded : d.tipo \notin roles
                 THEN [next |-> FALSE, status |-> 403, message |-> "Acceso denegado",
                       user |-> v.decoded]
                 ELSE [next |-> TRUE, status |-> 0, message |-> "", user |-> v.decoded]

(* verifyToken reading an empty role list as "no role is allowed" *)
verifyTokenDenyAll(roles, headers, t) ==
    LET token == AuthorizationToken(headers)
    IN  IF token = {} \/ token = {EmptyWord}
        THEN [next |-> FALSE, status |-> 401, message |-> "Token no proporcionado",
              user |-> {}]
        ELSE LET v == jwtVerify(CHOOSE x \in token : TRUE, JWT_SECRET, t)
             IN  IF v.error # "none"
                 THEN [next |-> FALSE, status |-> 401, message |-> "Token inválido",
                       user |-> {}]
                 ELSE IF \A d \in v.decoded : d.tipo \notin roles
                 THEN [next |-> FALSE, status |-> 403, message |-> "Acceso denegado",
                       user |-> v.decoded]
                 ELSE [next |-> TRUE, status |-> 0, message |-> "", user |-> v.decoded]

(* verifyToken without the role check *)
verifyTokenAnyRole(roles, headers, t) ==
    LET token == AuthorizationToken(headers)
    IN  IF token = {} \/ token = {EmptyWord}
        THEN [next |-> FALSE, status |-> 401, message |-> "Token no proporcionado",
              user |-> {}]
        ELSE LET v == jwtVerify(CHOOSE x \in token : TRUE, JWT_SECRET, t)
             IN  IF v.error # "none"
                 THEN [next |-> FALSE, status |-> 401, message |-> "Token inválido",
                       user |-> {}]
                 ELSE [next |-> TRUE, status |-> 0, message |-> "", user |-> v.decoded]

(* verifyToken looking the principal up again and refusing a token whose  *)
(* row is gone, inactive or bound to another business                     *)
StillStored(d) ==
    CASE d.tipo = "turista" ->
           \E u \in turistas : u.id = d.id /\ u.estado = "activo"
      [] d.tipo = "admin_negocio" ->
           \E u \in admins : /\ u.id = d.id /\ u.estado = "activo"
                             /\ u.negocio_id = d.negocio_id
      [] OTHER ->
           \E u \in supers : u.id = d.id /\ u.estado = "activo"

verifyTokenRevalidating(roles, headers, t) ==
    LET token == AuthorizationToken(headers)
    IN  IF token = {} \/ token = {EmptyWord}
        THEN [next |-> FALSE, status |-> 401, message |-> "Token no proporcionado",
              user |-> {}]
        ELSE LET v == jwtVerify(CHOOSE x \in token : TRUE, JWT_SECRET, t)
             IN  IF v.error # "none" \/ \E d \in v.decoded : ~StillStored(d)
                 THEN [next |-> FALSE, status |-> 401, message |-> "Token inválido",
                       user |-> {}]
                 ELSE IF roles # {} /\ \A d \in v.decoded : d.tipo \notin roles
                 THEN [next |-> FALSE, status |-> 403, message |-> "Acceso denegado",
                       user |-> v.decoded]
                 ELSE [next |-> TRUE, status |-> 0, message |-> "", user |-> v.decoded]

verifyToken(roles, headers, t) ==
    LET token == AuthorizationToken(headers)
    IN  IF token = {} \/ token = {EmptyWord}
        THEN [next |-> FALSE, status |-> 401, message |-> "Token no proporcionado",
              user |-> {}]
        ELSE LET v == jwtVerify(CHOOSE x \in token : TRUE, JWT_SECRET, t)
             IN  IF v.error # "none"
                 THEN [next |-> FALSE, status |-> 401, message |-> "Token inválido",
                       user |-> {}]
                 ELSE IF roles # {} /\ \A d \in v.decoded : d.tipo \notin roles
                 THEN [next |-> FALSE, status |-> 403, message |-> "Acceso denegado",
                       user |-> v.decoded]
                 ELSE [next |-> TRUE, status |-> 0, message |-> "", user |-> v.decoded]

(* What a client can put in the header: nothing, a scheme alone, two      *)
(* spaces before the token, junk, a token signed with another key, and    *)
(* for a token it was given: the token, the token under another scheme,   *)
(* and the token with its expiry pushed back.                             *)
ForgedToken ==
    jwtSign([id |-> 1, usuario |-> "root", tipo |-> "super_admin",
             nivel_acceso |-> "total"], OtherKey, ExpiresIn, now)

Tampered(tok) == <<tok[1], [tok[2] EXCEPT !.exp = @ + ExpiresIn], tok[3]>>

ClientHeaders ==
    { NoHeader,
      Header(<<Word("Bearer")>>),
      Header(<<Word("Bearer"), EmptyWord, Word("garbage")>>),
      Header(<<Word("Bearer"), Word("garbage")>>),
      Header(<<Word("Bearer"), ForgedToken>>) }
    \cup { Header(<<Word("Bearer"), tok>>) : tok \in issued }
    \cup { Header(<<Word("Basic"), tok>>) : tok \in issued }
    \cup { Header(<<Word("Bearer"), Tampered(tok)>>) : tok \in issued }

(* The headers the business routes are exercised with *)
BearerHeaders ==
    { NoHeader, Header(<<Word("Bearer"), ForgedToken>>) }
    \cup { Header(<<Word("Bearer"), tok>>) : tok \in issued }

(* The role sets the routes pass to verifyToken, and its default [] *)
RouteRoleSets ==
    { {} } \cup { {r} : r \in Roles } \cup { {"admin_negocio", "super_admin"} }

(* A route guarded by verifyToken(roles) whose handler only answers. *)
GuardedResult(req, auth) ==
    IF ~auth.next
    THEN GuardedResponse("guarded", req, auth.status, auth.message, {}, auth.user, FALSE)
    ELSE GuardedResponse("guarded", req, 200, "ok", {}, auth.user, TRUE)

GuardedRequest ==
    \E roles \in RouteRoleSets, headers \in ClientHeaders :
      LET req == [roles |-> roles, headers |-> headers]
      IN  /\ nreq < MaxReq
          /\ nreq' = nreq + 1
          /\ resp' = GuardedResult(req, verifyToken(roles, headers, now))
          /\ UNCHANGED <<store, reg, issued, now, ticks>>
          /\ UNCHANGED <<reviews, codec>>

----------------------------------------------------------------------------
(* POST /api/negocios: verifyToken(['super_admin']) *)

MaxId(rows) == IF rows = {} THEN 0 ELSE CHOOSE m \in {r.id : r \in rows} :
                                           \A r \in rows : r.id <= m

PostNegocioResult(req, auth, id) ==
    IF ~auth.next
    THEN GuardedResponse("post_negocio", req, auth.status, auth.message, {}, auth.user, FALSE)
    ELSE IF req.fault = "insert"
    THEN GuardedResponse("post_negocio", req, 500, "Error interno del servidor", {},
                         auth.user, TRUE)
    ELSE GuardedResponse("post_negocio", req, 201, "Negocio creado exitosamente", {id},
                         auth.user, TRUE)

PostNegocio ==
    \E headers \in BearerHeaders, nombre \in Nombres, fault \in {"none", "insert"} :
      LET req == [headers |-> headers, nombre |-> nombre, fault |-> fault]
          id == MaxId(negocios) + 1
      IN  /\ nreq < MaxReq
          /\ nreq' = nreq + 1
          /\ resp' = PostNegocioResult(req, verifyToken({"super_admin"}, headers, now), id)
          /\ negocios' = IF resp'.status = 201
                         THEN negocios \cup {[id |-> id, nombre |-> nombre]}
                         ELSE negocios
          /\ UNCHANGED <<turistas, admins, supers, nextTuristaId, reg, issued, now,
                         ticks>>
          /\ UNCHANGED <<reviews, codec>>

----------------------------------------------------------------------------
(* PUT /api/negocios/:id: verifyToken(['admin_negocio', 'super_admin'])   *)

(* req.params.id is a string.  JavaScript's != converts it with ToNumber  *)
(* (NaN, the empty set here, equals nothing); MySQL's id = ? converts it  *)
(* by its numeric prefix.                                                 *)
IdParams == {"1", "2", "01", "1abc"}

ToNumber(s) ==
    CASE s = "1" -> {1} [] s = "2" -> {2} [] s = "01" -> {1} [] OTHER -> {}

MySqlNumber(s) ==
    CASE s = "1" -> 1 [] s = "2" -> 2 [] s = "01" -> 1 [] s = "1abc" -> 1 [] OTHER -> 0

LooseNotEqual(n, s) == ToNumber(s) # {n}

(* UPDATE negocios SET nombre = COALESCE(?, nombre), ... WHERE id = ?     *)
(* (the twelve columns are updated alike; nombre stands for them)         *)
UpdateNegocio(negocioId, nombre) ==
    { IF n.id = MySqlNumber(negocioId) /\ nombre # NULL
      THEN [n EXCEPT !.nombre = nombre] ELSE n : n \in negocios }

(* The ownership check comparing the caller's own id with the path id *)
SinPermisosById(user, negocioId) ==
    \E u \in user : u.tipo = "admin_negocio" /\ LooseNotEqual(u.id, negocioId)

SinPermisos(user, negocioId) ==
    \E u \in user : u.tipo = "admin_negocio" /\ LooseNotEqual(u.negocio_id, negocioId)

PutNegocioResult(req, auth) ==
    IF ~auth.next
    THEN GuardedResponse("put_negocio", req, auth.status, auth.message, {}, auth.user, FALSE)
    ELSE IF SinPermisos(auth.user, req.id)
    THEN GuardedResponse("put_negocio", req, 403, "Sin permisos para este negocio", {},
                         auth.user, TRUE)
    ELSE IF req.fault = "update"
    THEN GuardedResponse("put_negocio", req, 500, "Error interno del servidor", {},
                         auth.user, TRUE)
    ELSE GuardedResponse("put_negocio", req, 200, "Negocio actualizado exitosamente", {},
                         auth.user, TRUE)

PutNegocio ==
    \E headers \in BearerHeaders, negocioId \in IdParams, nombre \in Nombres \cup {NULL},
       fault \in {"none", "update"} :
      LET req == [headers |-> headers, id |-> negocioId, nombre |-> nombre,
                  fault |-> fault]
      IN  /\ nreq < MaxReq
          /\ nreq' = nreq + 1
          /\ resp' = PutNegocioResult(req,
                        verifyToken({"admin_negocio", "super_admin"}, headers, now))
          /\ negocios' = IF resp'.status = 200 THEN UpdateNegocio(negocioId, nombre)
                         ELSE negocios
          /\ UNCHANGED <<turistas, admins, supers, nextTuristaId, reg, issued, now,
                         ticks>>
          /\ UNCHANGED <<reviews, codec>>

----------------------------------------------------------------------------
(* The clock *)

(* The clock moves to one second before a day boundary, then onto it. *)
Tick ==
    /\ ticks < MaxTicks
    /\ ticks' = ticks + 1
    /\ now' = now + (IF ticks % 2 = 0 THEN ExpiresIn - 1 ELSE 1)
    /\ resp' = NoResponse
    /\ UNCHANGED <<store, reg, issued, nreq>>
    /\ UNCHANGED <<reviews, codec>>

Next ==
    \/ TuristaLogin
    \/ AdminLogin
    \/ SuperAdminLogin
    \/ \E s \in RegSlots : RegisterSelect(s)
    \/ \E s \in RegSlots : RegisterInsert(s)
    \/ GuardedRequest
    \/ PostNegocio
    \/ PutNegocio
    \/ Tick

Spec == Init /\ [][Next]_vars

----------------------------------------------------------------------------
(* The Credential Store is shared with whoever administers the database:  *)
(* after a principal was given a token its row may be deactivated or      *)
(* deleted, and an administrator may be moved to another business.        *)

Deactivate(rows, id) ==
    { IF u.id = id THEN [u EXCEPT !.estado = "inactivo"] ELSE u : u \in rows }

Delete(rows, id) == { u \in rows : u.id # id }

Rebind(rows, id, negocioId) ==
    { IF u.id = id THEN [u EXCEPT !.negocio_id = negocioId] ELSE u : u \in rows }

Holders(tipo) == { tok[2].id : tok \in { k \in issued : k[2].tipo = tipo } }

StoreChange ==
    /\ \/ \E id \in Holders("turista") :
            /\ turistas' \in {Deactivate(turistas, id), Delete(turistas, id)}
            /\ UNCHANGED <<admins, supers>>
       \/ \E id \in Holders("admin_negocio") :
            /\ admins' \in {Deactivate(admins, id), Delete(admins, id)}
                           \cup {Rebind(admins, id, n.id) : n \in negocios}
            /\ UNCHANGED <<turistas, supers>>
       \/ \E id \in Holders("super_admin") :
            /\ supers' \in {Deactivate(supers, id), Delete(supers, id)}
            /\ UNCHANGED <<turistas, admins>>
    /\ <<turistas', admins', supers'>> # <<turistas, admins, supers>>
    /\ resp' = NoResponse
    /\ UNCHANGED <<negocios, nextTuristaId, reg, issued, now, ticks, nreq>>
    /\ UNCHANGED <<reviews, codec>>

NextStore ==
    \/ Next
    \/ StoreChange

SpecStore == Init /\ [][NextStore]_vars

----------------------------------------------------------------------------
(* POST /api/resenas: verifyToken(['turista']), then an existence check   *)
(* and an insert, two awaited store calls between which other requests    *)
(* run.  Bodies pass validateRequest: negocio_id and calificacion are     *)
(* integers in range.  A slot serves one request.                         *)

NegocioIds == {1, 2}
Calificaciones == {5}

(* SELECT id FROM resenas WHERE turista_id = ? AND negocio_id = ? *)
SelectResena(turistaId, negocioId) ==
    { r \in resenas : r.turista_id = turistaId /\ r.negocio_id = negocioId }

(* The response of the first part, if it sends one *)
ResenaSelectResult(req, auth, existing) ==
    IF ~auth.next
    THEN {GuardedResponse("post_resena", req, auth.status, auth.message, {}, auth.user,
                          FALSE)}
    ELSE IF req.fault = "select"
    THEN {GuardedResponse("post_resena", req, 500, "Error interno del servidor", {},
                          auth.user, TRUE)}
    ELSE IF existing # {}
    THEN {GuardedResponse("post_resena", req, 400, "Ya has reseñado este negocio", {},
                          auth.user, TRUE)}
    ELSE {}

(* Step 1: the guard runs, then the existence check. *)
ResenaSelect(s) ==
    \E headers \in BearerHeaders, negocio_id \in NegocioIds,
       calificacion \in Calificaciones, fault \in {"none", "select"} :
      LET req == [slot |-> s, headers |-> headers, negocio_id |-> negocio_id,
                  calificacion |-> calificacion, fault |-> fault]
          auth == verifyToken({"turista"}, headers, now)
          existing == UNION { SelectResena(u.id, negocio_id) : u \in auth.user }
          out == ResenaSelectResult(req, auth, existing)
      IN  /\ rev[s].pc = "idle"
          /\ resp' = IF out = {} THEN NoResponse ELSE CHOOSE r \in out : TRUE
          /\ rev' = IF out = {}
                    THEN [rev EXCEPT ![s] = [pc |-> "insert", user |-> auth.user,
                                             negocio_id |-> negocio_id,
                                             calificacion |-> calificacion]]
                    ELSE [rev EXCEPT ![s] = [IdleRev EXCEPT !.pc = "done"]]
          /\ UNCHANGED <<store, reg, issued, now, ticks, nreq, resenas, codec>>

ResenaInsertResult(req, user, id) ==
    IF req.fault = "insert"
    THEN GuardedResponse("post_resena", req, 500, "Error interno del servidor", {},
                         user, TRUE)
    ELSE GuardedResponse("post_resena", req, 201, "Reseña creada exitosamente", {id},
                         user, TRUE)

(* Step 2: INSERT INTO resenas (turista_id, negocio_id, calificacion, ...) *)
ResenaInsert(s) ==
    \E fault \in {"none", "insert"} :
      LET req == [slot |-> s, negocio_id |-> rev[s].negocio_id,
                  calificacion |-> rev[s].calificacion, fault |-> fault]
          id == MaxId(resenas) + 1
      IN  /\ rev[s].pc = "insert"
          /\ resp' = ResenaInsertResult(req, rev[s].user, id)
          /\ resenas' = IF resp'.status = 201
                        THEN resenas \cup
                             { [id |-> id, turista_id |-> u.id,
                                negocio_id |-> rev[s].negocio_id,
                                calificacion |-> rev[s].calificacion] : u \in rev[s].user }
                        ELSE resenas
          /\ rev' = [rev EXCEPT ![s] = [IdleRev EXCEPT !.pc = "done"]]
          /\ UNCHANGED <<store, reg, issued, now, ticks, nreq, codec>>

NextResenas ==
    \/ TuristaLogin
    \/ \E s \in RevSlots : ResenaSelect(s)
    \/ \E s \in RevSlots : ResenaInsert(s)
    \/ Tick

SpecResenas == Init /\ [][NextResenas]_vars

----------------------------------------------------------------------------
(* The token codec on its own: jwt.sign of a claim set with JWT_SECRET    *)
(* and expiresIn '24h', then jwt.verify of that token at later times.     *)

(* The claim sets the three logins build from the rows, and one of        *)
(* another shape                                                          *)
ClaimSets ==
    { [id |-> u.id, email |-> u.email, tipo |-> "turista"] : u \in InitTuristas }
    \cup { [id |-> u.id, email |-> u.email, negocio_id |-> u.negocio_id,
            tipo |-> "admin_negocio"] : u \in InitAdmins }
    \cup { [id |-> u.id, usuario |-> u.usuario, tipo |-> "super_admin",
            nivel_acceso |-> u.nivel_acceso] : u \in InitSupers }
    \cup { [sub |-> "x"] }

CodecIssue ==
    \E claims \in ClaimSets :
      /\ codec.pc = "idle"
      /\ codec' = [IdleCodec EXCEPT !.pc = "issued", !.claims = {claims}, !.at = now,
                      !.token = {jwtSign(claims, JWT_SECRET, ExpiresIn, now)}]
      /\ UNCHANGED <<store, reg, issued, now, ticks, nreq, reviews, resp>>

CodecVerify ==
    \E key \in {JWT_SECRET, OtherKey}, token \in codec.token :
      LET v == jwtVerify(token, key, now)
      IN  /\ codec.pc \in {"issued", "verified"}
          /\ codec' = [codec EXCEPT !.pc = "verified", !.key = key, !.verifiedAt = now,
                          !.error = v.error, !.decoded = v.decoded]
          /\ UNCHANGED <<store, reg, issued, now, ticks, nreq, reviews, resp>>

NextCodec ==
    \/ CodecIssue
    \/ CodecVerify
    \/ Tick

SpecCodec == Init /\ [][NextCodec]_vars

----------------------------------------------------------------------------
(* Vocabulary of the properties *)

LoginOps == {"turista_login", "admin_login", "super_admin_login"}
GuardedOps == {"guarded", "post_negocio", "put_negocio"}

(* This step sent a response. *)
Responded == resp' # NoResponse
LoginResponded == Responded /\ resp'.op \in LoginOps
GuardResponded == Responded /\ resp'.op \in GuardedOps

(* The rows of the table behind a login operation, by identifier *)
Principals(op, ident) ==
    CASE op = "turista_login" -> { u \in turistas : u.email = ident }
      [] op = "admin_login" -> { u \in admins : u.email = ident }
      [] op = "super_admin_login" -> { u \in supers : u.usuario = ident }

KindOf(op) ==
    CASE op = "turista_login" -> "turista"
      [] op = "admin_login" -> "admin_negocio"
      [] op = "super_admin_login" -> "super_admin"

(* password is the secret the row's digest was made from *)
HasSecret(u, password) == u.password_hash.hash[2] = password

(* What the caller sees of a response *)
Visible(r) == <<r.status, r.message, r.token>>
InvalidCredentials == <<401, "Credenciales inválidas", {}>>
InactiveAccount == <<401, "Cuenta inactiva", {}>>

(* The roles a guarded route was mounted with *)
RouteRoles(r) ==
    CASE r.op = "guarded" -> r.req.roles
      [] r.op = "post_negocio" -> {"super_admin"}
      [] r.op = "put_negocio" -> {"admin_negocio", "super_admin"}

(* The token a guarded request carried, if the header has a second word *)
Carried(r) ==
    IF r.req.headers.present /\ Len(r.req.headers.parts) > 1
    THEN {r.req.headers.parts[2]} ELSE {}

----------------------------------------------------------------------------
(* A login, answered by the store, with the identifier of a stored        *)
(* principal whose estado is not activo and with its correct secret       *)
InactiveLogin ==
    /\ LoginResponded
    /\ resp'.req.fault # "select"
    /\ \E u \in Principals(resp'.op, resp'.req.ident) :
          u.estado # "activo" /\ HasSecret(u, resp'.req.password)

----------------------------------------------------------------------------
(* C2: in every login operation and every reachable store, a login with   *)
(* an identifier no row has and a login with the identifier of an active  *)
(* principal and a wrong secret get the same visible response, and that   *)
(* response is InvalidCredentials when the store answers the lookup.      *)
SameInvalidCredentials(outcomes(_, _, _), rows, idents, key(_)) ==
    \A unknown \in idents, known \in idents, p1 \in Passwords, p2 \in Passwords,
       fault \in {"none", "select", "update"} :
        (/\ \A u \in rows : key(u) # unknown
         /\ \E u \in rows : key(u) = known /\ u.estado = "activo" /\ ~HasSecret(u, p2))
        => \A r1 \in outcomes(unknown, p1, fault), r2 \in outcomes(known, p2, fault) :
              /\ Visible(r1) = Visible(r2)
              /\ fault # "select" => Visible(r1) = InvalidCredentials

EmailOf(u) == u.email
UsuarioOf(u) == u.usuario

C2_SameInvalidCredentials ==
    /\ SameInvalidCredentials(TuristaLoginOutcomes, turistas, Emails, EmailOf)
    /\ SameInvalidCredentials(AdminLoginOutcomes, admins, AdminEmails, EmailOf)
    /\ SameInvalidCredentials(SuperAdminLoginOutcomes, supers, Usuarios, UsuarioOf)

(* A wrong secret for an active tourist was just answered, while some     *)
(* other identifier is unknown.                                           *)
C2_Witness ==
    /\ resp.op = "turista_login"
    /\ Visible(resp) = InvalidCredentials
    /\ \E u \in turistas : /\ u.email = resp.req.ident
                           /\ u.estado = "activo"
                           /\ ~HasSecret(u, resp.req.password)
    /\ \E e \in Emails : \A u \in turistas : u.email # e

----------------------------------------------------------------------------
(* C3: a login with the identifier and the secret of an active principal, *)
(* when the store does not fail, returns a token that verifies and whose  *)
(* claims are that principal's id, the role tag of the login operation    *)
(* and the scope stored for the principal when the login ran (negocio_id  *)
(* of a business admin, nivel_acceso of a super admin).                   *)
ScopeMatches(d, u) ==
    /\ d.tipo = "admin_negocio" => d.negocio_id = u.negocio_id
    /\ d.tipo = "super_admin" => d.nivel_acceso = u.nivel_acceso

C3_TokenCarriesPrincipal ==
    [][ (LoginResponded /\ resp'.req.fault = "none")
        => \A u \in Principals(resp'.op, resp'.req.ident) :
              (u.estado = "activo" /\ HasSecret(u, resp'.req.password))
              => /\ resp'.status = 200
                 /\ \E tok \in resp'.token :
                      LET v == jwtVerify(tok, JWT_SECRET, now')
                      IN  /\ v.error = "none"
                          /\ \A d \in v.decoded :
                               /\ d.id = u.id
                               /\ d.tipo = KindOf(resp'.op)
                               /\ ScopeMatches(d, u) ]_vars

(* A business admin has just logged in and holds a token. *)
C3_Witness ==
    /\ resp.op = "admin_login"
    /\ resp.status = 200
    /\ \E tok \in resp.token : tok[2].tipo = "admin_negocio" /\ tok[2].negocio_id = 2

----------------------------------------------------------------------------
(* C4: when a login found an active principal and verified its secret, a  *)
(* failure of the ultima_conexion update does not fail the login: the     *)
(* response is the success response with the token.                       *)
C4_LastSeenFailureIgnored ==
    [][ (/\ LoginResponded
         /\ resp'.req.fault = "update"
         /\ \E u \in Principals(resp'.op, resp'.req.ident) :
               u.estado = "activo" /\ HasSecret(u, resp'.req.password))
        => (resp'.status = 200 /\ resp'.token # {}) ]_vars

----------------------------------------------------------------------------
(* C5: whatever roles a route is guarded with, a request without an       *)
(* Authorization token, or with a token that jwt.verify rejects (not a    *)
(* JWT, wrong signature, expired), is answered 401: never 403 or 500, the *)
(* handler does not run, nothing is bound and the store is untouched.     *)
Unverifiable(r, t) ==
    \A tok \in Carried(r) : jwtVerify(tok, JWT_SECRET, t).error # "none"

C5_Unauthenticated ==
    [][ (GuardResponded /\ Unverifiable(resp', now))
        => /\ resp'.status = 401
           /\ ~resp'.ran
           /\ resp'.user = {}
           /\ store' = store ]_vars

(* An expired token, once issued by a login, was refused. *)
C5_Witness ==
    /\ resp.op \in GuardedOps
    /\ resp.status = 401
    /\ \E tok \in Carried(resp) : /\ tok \in issued
                                  /\ jwtVerify(tok, JWT_SECRET, now).error = "jwt expired"

----------------------------------------------------------------------------
(* C6: a request to a route guarded with a non-empty set of roles, with a *)
(* token that verifies and whose tipo is not among them, is answered 403  *)
(* and the handler does not run; so is POST /api/negocios (super_admin    *)
(* only) with a business admin's token.                                   *)
C6_Forbidden ==
    [][ GuardResponded
        => \A tok \in Carried(resp') :
              (/\ jwtVerify(tok, JWT_SECRET, now).error = "none"
               /\ RouteRoles(resp') # {}
               /\ tok[2].tipo \notin RouteRoles(resp'))
              => /\ resp'.status = 403
                 /\ ~resp'.ran
                 /\ store' = store ]_vars

(* A business admin's valid token was refused by POST /api/negocios. *)
C6_Witness ==
    /\ resp.op = "post_negocio"
    /\ resp.status = 403
    /\ ~resp.ran
    /\ \E tok \in Carried(resp) : tok \in issued /\ tok[2].tipo = "admin_negocio"

----------------------------------------------------------------------------
(* C7: PUT /api/negocios/:id by a caller admitted as business admin       *)
(* updates the business only if the token's negocio_id is the number the  *)
(* path id denotes; otherwise it is answered 403, and in every case the   *)
(* rows of other businesses stay as they were.  A caller admitted as      *)
(* super admin is never refused, whatever the id.                         *)
C7_Ownership ==
    [][ (GuardResponded /\ resp'.op = "put_negocio" /\ resp'.ran)
        => \A u \in resp'.user :
             /\ u.tipo = "admin_negocio" =>
                  /\ resp'.status = 200 => ToNumber(resp'.req.id) = {u.negocio_id}
                  /\ ToNumber(resp'.req.id) # {u.negocio_id} =>
                        (resp'.status = 403 /\ negocios' = negocios)
                  /\ \A n \in negocios : n.id # u.negocio_id => n \in negocios'
             /\ u.tipo = "super_admin" =>
                  /\ resp'.status # 403
                  /\ resp'.req.fault = "none" =>
                        /\ resp'.status = 200
                        /\ negocios' = UpdateNegocio(resp'.req.id, resp'.req.nombre) ]_vars

(* A business admin was refused the update of another business. *)
C7_Witness ==
    /\ resp.op = "put_negocio"
    /\ resp.status = 403
    /\ resp.ran
    /\ \E u \in resp.user : u.tipo = "admin_negocio" /\ u.negocio_id = 2
    /\ resp.req.id = "1"

----------------------------------------------------------------------------
(* C8: a registration whose INSERT finds the email already inserted by a  *)
(* concurrent registration (both passed the pre-check) is answered like a *)
(* sequential duplicate, 400 "El email ya está registrado", and at most   *)
(* one row has that email afterwards.                                     *)
C8_RaceLoserGetsDuplicate ==
    [][ \A s \in RegSlots :
          (/\ reg[s].pc = "insert"
           /\ reg'[s].pc = "idle"
           /\ resp'.req.fault = "none"
           /\ \E u \in turistas : u.email = reg[s].email)
          => /\ resp'.status = 400
             /\ resp'.message = "El email ya está registrado"
             /\ Cardinality({ u \in turistas' : u.email = reg[s].email }) <= 1 ]_vars

----------------------------------------------------------------------------
(* C9: rows of turistas are never removed by the API, and a registration  *)
(* that arrives when a row has its email (in particular one created by an *)
(* earlier successful registration) is answered 400 "El email ya está     *)
(* registrado" when the store answers the pre-check: it inserts nothing,  *)
(* returns no id and goes no further.                                     *)
C9_DuplicateRegistration ==
    [][ /\ \A u \in turistas : \E v \in turistas' : v.id = u.id /\ v.email = u.email
        /\ \A s \in RegSlots :
             (reg[s].pc = "idle" /\ reg'[s].pc = "insert")
             => \A u \in turistas : u.email # reg'[s].email
        /\ (/\ Responded
            /\ nreq' # nreq
            /\ resp'.op = "turista_register"
            /\ resp'.req.fault = "none")
           => /\ \E u \in turistas : u.email = resp'.req.email
              /\ resp'.status = 400
              /\ resp'.message = "El email ya está registrado"
              /\ resp'.id = {}
              /\ turistas' = turistas
              /\ reg' = reg ]_vars

(* A second registration of an email registered through the API was       *)
(* refused.                                                               *)
C9_Witness ==
    /\ resp.op = "turista_register"
    /\ resp.status = 400
    /\ \E u \in turistas : /\ u.email = resp.req.email
                           /\ u.id \notin {t.id : t \in InitTuristas}

----------------------------------------------------------------------------
(* C10: a token a login issued is admitted by verifyToken at every time   *)
(* before its expiry, with the claims it was signed with, whenever the    *)
(* route has no role restriction or allows its tipo: also after the       *)
(* principal's row was deactivated, deleted or bound to another business. *)
C10_TokenOutlivesRecord ==
    [][ GuardResponded
        => \A tok \in Carried(resp') :
              (/\ tok \in issued
               /\ now < tok[2].exp
               /\ RouteRoles(resp') = {} \/ tok[2].tipo \in RouteRoles(resp'))
              => /\ resp'.ran
                 /\ resp'.user = {tok[2]} ]_vars

(* A business admin's token was admitted although no active row with its *)
(* id and negocio_id is left.                                             *)
C10_Witness ==
    /\ resp.op \in GuardedOps
    /\ resp.ran
    /\ \E d \in resp.user :
         /\ d.tipo = "admin_negocio"
         /\ d.iat < now
         /\ \A a \in admins : ~(a.id = d.id /\ a.estado = "activo"
                                /\ a.negocio_id = d.negocio_id)

----------------------------------------------------------------------------
(* C11: each of the three logins signs its token at the time of the       *)
(* request with an expiry exactly ExpiresIn (24 h) later; a guarded       *)
(* request carrying an issued token at its issue time + 24 h or later is  *)
(* refused 401 because jwt.verify says "jwt expired", and one second      *)
(* before that jwt.verify accepts it and a route allowing its tipo runs.  *)
C11_ExpiryBoundary ==
    [][ /\ LoginResponded
           => \A tok \in resp'.token : /\ tok[2].iat = now
                                        /\ tok[2].exp = now + ExpiresIn
        /\ GuardResponded
           => \A tok \in Carried(resp') :
                 tok \in issued
                 => /\ now >= tok[2].iat + ExpiresIn
                       => /\ jwtVerify(tok, JWT_SECRET, now).error = "jwt expired"
                          /\ resp'.status = 401
                          /\ ~resp'.ran
                    /\ now = tok[2].iat + ExpiresIn - 1
                       => /\ jwtVerify(tok, JWT_SECRET, now).error = "none"
                          /\ resp'.status # 401
                          /\ (RouteRoles(resp') = {} \/ tok[2].tipo \in RouteRoles(resp'))
                             => resp'.ran ]_vars

(* A token was refused at exactly its issue time + 24 h. *)
C11_Witness ==
    /\ resp.op \in GuardedOps
    /\ resp.status = 401
    /\ ~resp.ran
    /\ \E tok \in Carried(resp) : /\ tok \in issued
                                  /\ now = tok[2].iat + ExpiresIn

(* A token was admitted one second before its issue time + 24 h. *)
C11_LastSecond ==
    /\ resp.op \in GuardedOps
    /\ resp.ran
    /\ \E tok \in Carried(resp) : /\ tok \in issued
                                  /\ now = tok[2].iat + ExpiresIn - 1

----------------------------------------------------------------------------
(* C12: on a route guarded by verifyToken() with the empty role list (its *)
(* default), every request whose token is signed with JWT_SECRET and not  *)
(* expired is admitted, whatever the token's tipo: the handler runs with  *)
(* req.user bound to the token's claims and the answer is never 403.      *)
C12_EmptyRolesAdmitAll ==
    [][ (GuardResponded /\ RouteRoles(resp') = {})
        => \A tok \in Carried(resp') :
              (/\ Len(tok) = 3
               /\ tok[3] = Mac(JWT_SECRET, tok[2])
               /\ now < tok[2].exp)
              => /\ resp'.ran
                 /\ resp'.status = 200
                 /\ resp'.user = {tok[2]} ]_vars

(* A business admin's token was admitted by a route with no role list. *)
C12_Witness ==
    /\ resp.op = "guarded"
    /\ resp.req.roles = {}
    /\ resp.ran
    /\ \E d \in resp.user : d.tipo = "admin_negocio"

----------------------------------------------------------------------------
(* A claim set was signed and its token verified with the signing key     *)
(* before 24 h had passed.                                                *)
RoundTripped ==
    /\ codec.pc = "verified"
    /\ codec.key = JWT_SECRET
    /\ codec.verifiedAt < codec.at + ExpiresIn

(* C13 as stated: verifying the token of a claim set before its issue     *)
(* time + 24 h returns a claim set equal to the one passed to issuance.   *)
C13_RoundTripExact ==
    RoundTripped => codec.decoded = codec.claims

(* C13: verifying the token of a claim set before its issue time + 24 h   *)
(* succeeds and returns every claim that was passed, with its value,      *)
(* together with the two claims the codec adds: iat, the issue time, and  *)
(* exp, the issue time + 24 h.                                            *)
C13_RoundTrip ==
    RoundTripped
    => /\ codec.error = "none"
       /\ \E d \in codec.decoded : \A c \in codec.claims :
             /\ codec.decoded = {d}
             /\ DOMAIN d = DOMAIN c \cup {"iat", "exp"}
             /\ \A k \in DOMAIN c : d[k] = c[k]
             /\ d.iat = codec.at
             /\ d.exp = codec.at + ExpiresIn

(* A business admin's claim set came back in the last second of its 24 h. *)
C13_Witness ==
    /\ RoundTripped
    /\ codec.verifiedAt = codec.at + ExpiresIn - 1
    /\ \E c \in codec.claims : c \in ClaimSets /\ "negocio_id" \in DOMAIN c
    /\ codec.decoded # {}

----------------------------------------------------------------------------
(* The table behind a login operation *)
Rows(op) ==
    CASE op = "turista_login" -> turistas
      [] op = "admin_login" -> admins
      [] op = "super_admin_login" -> supers

(* The login request of this step went through all four steps: the store  *)
(* answered the lookup and the update, the lookup found a row, the row is *)
(* activo, the password is the row's, and the row's ultima_conexion is    *)
(* the time of the request afterwards.                                    *)
LoginCompleted ==
    /\ resp'.req.fault = "none"
    /\ \E op \in LoginOps :
         /\ op = resp'.op
         /\ \E u \in Principals(op, resp'.req.ident) :
              /\ u.estado = "activo"
              /\ HasSecret(u, resp'.req.password)
              /\ [u EXCEPT !.ultima_conexion = now] \in Rows(op)'

(* C14: a login response carries a token only if its request went through *)
(* lookup, active check, password comparison and ultima_conexion update;  *)
(* on every other path (unknown identifier, inactive, wrong secret, a     *)
(* store fault at the lookup or at the update after the token was signed) *)
(* the response has no token, no token is handed out and no row changes.  *)
C14_TokenOnlyAfterAllSteps ==
    [][ LoginResponded
        => /\ resp'.token # {} => LoginCompleted
           /\ ~LoginCompleted => /\ resp'.token = {}
                                 /\ resp'.status # 200
                                 /\ issued' = issued
                                 /\ store' = store ]_vars

(* A login sent a token and the principal's ultima_conexion is the time   *)
(* of that login.                                                         *)
C14_Witness ==
    /\ resp.op \in LoginOps
    /\ resp.token # {}
    /\ resp.req.fault = "none"
    /\ \E u \in Principals(resp.op, resp.req.ident) :
         /\ u.ultima_conexion = now
         /\ \E tok \in resp.token : tok[2].id = u.id /\ tok[2].iat = now

(* The update failed after the token was signed: 500, and no token. *)
C14_FaultAfterSigning ==
    /\ resp.op \in LoginOps
    /\ resp.req.fault = "update"
    /\ resp.status = 500
    /\ resp.token = {}
    /\ issued = {}
    /\ \E u \in Principals(resp.op, resp.req.ident) :
         u.estado = "activo" /\ HasSecret(u, resp.req.password)

----------------------------------------------------------------------------
(* C15: in every state reached by interleaved POST /api/resenas requests  *)
(* there is at most one resenas row for a tourist id and a business id.   *)
C15_OneReviewPerPair ==
    \A a \in resenas, b \in resenas :
       (a.turista_id = b.turista_id /\ a.negocio_id = b.negocio_id) => a = b

====
